---------------------------- MODULE Spec2Model ----------------------------
(***************************************************************************)
(* A model of the sentiment analyzer: the batch run of src/main.py (the    *)
(* directory loop, process_zip, the ranking, the export and the cleanup),  *)
(* and the three analyze_sentiment variants (src/main.py, SA#2.py,         *)
(* SA#2_directory_read.py).                                                *)
(*                                                                         *)
(* Scores are Python floats in the program; here they are exact rationals  *)
(* <<numerator, denominator>> in lowest terms with a positive denominator. *)
(***************************************************************************)
EXTENDS Integers, Sequences, FiniteSets, TLC

VARIABLES
    pc,              \* position of the script
    zip_files,       \* os.listdir(data_path): the directory listing
    zi,              \* index of the directory entry the main loop is at
    stock_symbol,    \* process_zip's stock_symbol
    archives,        \* per ticker: the files of its archive listed so far
    exhausted,       \* tickers whose document loop ran to its end
    score_list,      \* process_zip's score_list
    score_dict,      \* the ticker -> score dict, in insertion order
    temp_dir,        \* TRUE while the directory made by mkdtemp exists
    raised,          \* the exception that ended the run, or "none"
    df,              \* the sorted data frame (the ranking)
    df_top5,         \* df.head(5)
    df_export,       \* the rows written to sentiment_portfolio.csv
    document_text,   \* the text given to analyze_sentiment
    positive_words, negative_words, modal_weak, modal_strong,
    litigious, uncertainty,   \* the module-level word sets
    result           \* what analyze_sentiment returned or raised

vars == <<pc, zip_files, zi, stock_symbol, archives, exhausted, score_list,
          score_dict, temp_dir, raised, df, df_top5, df_export, document_text,
          positive_words, negative_words, modal_weak, modal_strong,
          litigious, uncertainty, result>>

lexicon == <<positive_words, negative_words, modal_weak, modal_strong,
             litigious, uncertainty>>

run_vars == <<zip_files, zi, stock_symbol, archives, exhausted, score_list,
              score_dict, temp_dir, raised, df, df_top5, df_export>>

----------------------------------------------------------------------------
(* Bounds of the model *)

MaxEntries == 3      \* directory entries in data_path
MaxDocs == 2         \* files in one archive
MaxLen == 2          \* whitespace-separated chunks of a document text
MaxRank == 6         \* tickers of a score dict handed to the ranking

----------------------------------------------------------------------------
(* Exact rational arithmetic *)

Abs(n) == IF n < 0 THEN -n ELSE n

RECURSIVE GCD(_, _)
GCD(a, b) == IF b = 0 THEN a ELSE GCD(b, a % b)

Norm(n, d) == LET g == GCD(Abs(n), d) IN <<n \div g, d \div g>>

RAdd(x, y) == Norm(x[1] * y[2] + y[1] * x[2], x[2] * y[2])

RDivInt(x, k) == Norm(x[1], x[2] * k)

RLess(x, y) == x[1] * y[2] < y[1] * x[2]

RECURSIVE RSum(_)
RSum(s) == IF s = <<>> THEN <<0, 1>> ELSE RAdd(Head(s), RSum(Tail(s)))

----------------------------------------------------------------------------
(* Text, tokens. A document text is the sequence of its whitespace-        *)
(* separated chunks, so str.split() yields the chunks themselves.          *)

RawChunks == {"Gain", "loss", "loss,"}

Vocabulary == {"gain", "loss"}

\* str.lower() on the chunks of the model
Lower(w) == IF w = "Gain" THEN "gain" ELSE w

RECURSIVE LowerAll(_)
LowerAll(s) == IF s = <<>> THEN <<>> ELSE <<Lower(Head(s))>> \o LowerAll(Tail(s))

\* nltk's word_tokenize: punctuation becomes a token of its own
RECURSIVE word_tokenize(_)
word_tokenize(text) ==
    IF text = <<>> THEN <<>>
    ELSE (IF Head(text) = "loss," THEN <<"loss", ",">> ELSE <<Head(text)>>)
         \o word_tokenize(Tail(text))

stop_words == {"the"}

global_exclude_stop_words == FALSE

RECURSIVE Filter(_, _)
Filter(s, drop) ==
    IF s = <<>> THEN <<>>
    ELSE (IF Head(s) \in drop THEN <<>> ELSE <<Head(s)>>) \o Filter(Tail(s), drop)

tokenize_text(text, exclude_stop_words) ==
    LET corpus == LowerAll(text)
        tokens == word_tokenize(corpus)
    IN IF ~exclude_stop_words THEN tokens ELSE Filter(tokens, stop_words)

\* the count with the sum started at 1: sum(..., 1)
CountFromOne(words, word_set) ==
    1 + Cardinality({i \in DOMAIN words : words[i] \in word_set})

\* sum(word in word_set for word in words)
Count(words, word_set) ==
    Cardinality({i \in DOMAIN words : words[i] \in word_set})

----------------------------------------------------------------------------
(* analyze_sentiment, src/main.py: the continuous score *)

analyze_sentiment(text) ==
    LET words == tokenize_text(text, global_exclude_stop_words)
        word_cnt == Len(words)
        positive_cnt == Count(words, positive_words)
        negative_cnt == Count(words, negative_words)
    IN IF word_cnt = 0
       THEN [raised |-> "ZeroDivisionError", word_cnt |-> word_cnt,
             positive_cnt |-> positive_cnt, negative_cnt |-> negative_cnt]
       ELSE [raised |-> "none", word_cnt |-> word_cnt,
             positive_cnt |-> positive_cnt, negative_cnt |-> negative_cnt,
             sentiment_score |-> Norm(positive_cnt - negative_cnt, word_cnt)]

(* analyze_sentiment, src/SA#2_directory_read.py: label and score *)

analyze_sentiment_directory_read(text) ==
    LET words == LowerAll(text)
        word_cnt == Len(words)
        positive_cnt == Count(words, positive_words)
        negative_cnt == Count(words, negative_words)
        document_sentiment ==
            IF positive_cnt > negative_cnt THEN "Positive"
            ELSE IF negative_cnt > positive_cnt THEN "Negative"
            ELSE "Neutral"
    IN IF word_cnt = 0
       THEN [raised |-> "ZeroDivisionError", word_cnt |-> word_cnt,
             positive_cnt |-> positive_cnt, negative_cnt |-> negative_cnt]
       ELSE [raised |-> "none", word_cnt |-> word_cnt,
             positive_cnt |-> positive_cnt, negative_cnt |-> negative_cnt,
             document_sentiment |-> document_sentiment,
             sentiment_score |-> Norm(positive_cnt - negative_cnt, word_cnt)]

(* analyze_sentiment, src/SA#2.py: the six counts and the label *)

\* the label with the last two tests in the other order
document_sentiment_litigious_last(positive_cnt, negative_cnt, strong_cnt, weak_cnt, litigious_cnt, uncertainty_cnt) ==
    LET s0 == IF positive_cnt > negative_cnt
              THEN (IF strong_cnt > weak_cnt THEN "Strong Positive" ELSE "Neutral")
              ELSE IF negative_cnt > positive_cnt
              THEN (IF weak_cnt > strong_cnt THEN "Strong Negative" ELSE "Neutral")
              ELSE "Neutral"
        s1 == IF uncertainty_cnt >= 1
              THEN "Seems to be some uncertainty in this stock" ELSE s0
        s2 == IF litigious_cnt >= 1
              THEN "Check the legal background on this" ELSE s1
    IN s2

document_sentiment_SA2(positive_cnt, negative_cnt, strong_cnt, weak_cnt, litigious_cnt, uncertainty_cnt) ==
    LET s0 == IF positive_cnt > negative_cnt
              THEN (IF strong_cnt > weak_cnt THEN "Strong Positive" ELSE "Neutral")
              ELSE IF negative_cnt > positive_cnt
              THEN (IF weak_cnt > strong_cnt THEN "Strong Negative" ELSE "Neutral")
              ELSE "Neutral"
        s1 == IF litigious_cnt >= 1
              THEN "Check the legal background on this" ELSE s0
        s2 == IF uncertainty_cnt >= 1
              THEN "Seems to be some uncertainty in this stock" ELSE s1
    IN s2

analyze_sentiment_SA2(text) ==
    LET words == LowerAll(text)
        positive_cnt == Count(words, positive_words)
        negative_cnt == Count(words, negative_words)
        weak_cnt == Count(words, modal_weak)
        strong_cnt == Count(words, modal_strong)
        litigious_cnt == Count(words, litigious)
        uncertainty_cnt == Count(words, uncertainty)
    IN [raised |-> "none", word_cnt |-> Len(words),
        document_sentiment |->
            document_sentiment_SA2(positive_cnt, negative_cnt, strong_cnt,
                                   weak_cnt, litigious_cnt, uncertainty_cnt),
        positive_cnt |-> positive_cnt, negative_cnt |-> negative_cnt,
        strong_cnt |-> strong_cnt, weak_cnt |-> weak_cnt,
        litigious_cnt |-> litigious_cnt, uncertainty_cnt |-> uncertainty_cnt]

----------------------------------------------------------------------------
(* The run of src/main.py *)

dow_30 ==
    ("AAPL" :> "Apple Inc.") @@ ("AMGN" :> "Amgen Inc.") @@
    ("AXP" :> "American Express Company") @@ ("BA" :> "Boeing Company") @@
    ("CAT" :> "Caterpillar Inc.") @@ ("CRM" :> "Salesforce Inc.") @@
    ("CSCO" :> "Cisco Systems, Inc.") @@ ("CVX" :> "Chevron Corporation") @@
    ("DIS" :> "Walt Disney Company") @@ ("DOW" :> "Dow Inc.") @@
    ("GS" :> "Goldman Sachs Group Inc.") @@ ("HD" :> "Home Depot Inc.") @@
    ("HON" :> "Honeywell International Inc.") @@
    ("IBM" :> "International Business Machines Corporation") @@
    ("INTC" :> "Intel Corporation") @@ ("JNJ" :> "Johnson & Johnson") @@
    ("JPM" :> "JPMorgan Chase & Co.") @@ ("KO" :> "Coca-Cola Company") @@
    ("MCD" :> "McDonald's Corporation") @@ ("MMM" :> "3M Company") @@
    ("MRK" :> "Merck & Co., Inc.") @@ ("MSFT" :> "Microsoft Corporation") @@
    ("NKE" :> "Nike, Inc.") @@ ("PG" :> "Procter & Gamble Company") @@
    ("TRV" :> "Travelers Companies Inc.") @@
    ("UNH" :> "UnitedHealth Group Incorporated") @@ ("V" :> "Visa Inc.") @@
    ("VZ" :> "Verizon Communications Inc.") @@
    ("WBA" :> "Walgreens Boots Alliance, Inc.") @@ ("WMT" :> "Walmart Inc.")

top_n == 5

AMOUNT_INVESTED == 200000

\* The entries data_path may hold: os.path.splitext(name) = (stem, ext).
\* One archive per ticker symbol: the stems of a listing are distinct.
DirEntries ==
    { [stem |-> "AAPL", ext |-> ".zip"],
      [stem |-> "AMGN", ext |-> ".ZIP"],
      [stem |-> "XYZ", ext |-> ".zip"],
      [stem |-> "portfolio", ext |-> ""] }

\* the first tickers of dow_30, in its order
RankTickers == <<"AAPL", "AMGN", "AXP", "BA", "CAT", "CRM", "CSCO", "CVX">>

\* the symbols of the model's archives
Stems ==
    {e.stem : e \in DirEntries} \cup {RankTickers[i] : i \in DOMAIN RankTickers}

Listings ==
    UNION { { s \in [1..n -> DirEntries] :
                \A i, j \in 1..n : i # j => s[i].stem # s[j].stem } :
            n \in 0..MaxEntries }

\* The files an archive may hold: not a .pdf, a .pdf extract_text fails on,
\* a .pdf with an empty text, and .pdf files of score 1 and -1/2.
DocPool ==
    { [pdf |-> FALSE, readable |-> TRUE, text |-> <<"Gain">>],
      [pdf |-> TRUE, readable |-> FALSE, text |-> <<>>],
      [pdf |-> TRUE, readable |-> TRUE, text |-> <<>>],
      [pdf |-> TRUE, readable |-> TRUE, text |-> <<"Gain">>],
      [pdf |-> TRUE, readable |-> TRUE, text |-> <<"loss,">>] }

\* zip_file.lower().endswith(".zip")
IsZip(entry) == entry.ext \in {".zip", ".ZIP"}

\* main.py line 180: os.path.splitext(zip_file)[0]
MainSymbol(entry) == entry.stem

\* process_zip lines 94-95: drop ".zip" from the base name, then splitext
ZipSymbol(entry) ==
    LET zip_file_name == IF entry.ext = ".zip"
                         THEN [stem |-> entry.stem, ext |-> ""] ELSE entry
    IN zip_file_name.stem

\* the dict as a sequence of <<key, value>> in insertion order
Keys(d) == {d[i][1] : i \in DOMAIN d}

Get(d, k) == d[CHOOSE i \in DOMAIN d : d[i][1] = k][2]

\* d[k] = v
DictSet(d, k, v) ==
    IF k \in Keys(d)
    THEN [i \in DOMAIN d |-> IF d[i][1] = k THEN <<k, v>> ELSE d[i]]
    ELSE Append(d, <<k, v>>)

\* sum(score_list) / len(score_list), for a non-empty list
Mean(list) == RDivInt(RSum(list), Len(list))

\* DataFrame.from_dict(score_dict, orient="index") has one row per entry of
\* the dict, in its order: the data frame is the sequence of <<ticker, score>>.

\* df.sort_values(by="Sentiment Score", ascending=False): pandas' default
\* kind="quicksort" is not a stable sort, so rows of equal score come out in
\* an order the library does not fix. The set of the outcomes: every
\* ordering of the rows `rest` of d by score descending.
RECURSIVE DescendingOrders(_, _)
DescendingOrders(d, rest) ==
    IF rest = {} THEN {<<>>}
    ELSE UNION { { <<d[i]>> \o r : r \in DescendingOrders(d, rest \ {i}) } :
                 i \in {j \in rest : \A k \in rest : ~RLess(d[j][2], d[k][2])} }

sort_values(d) == DescendingOrders(d, DOMAIN d)

\* the last n rows: df.tail(n)
tail(d, n) == IF Len(d) <= n THEN d ELSE SubSeq(d, Len(d) - n + 1, Len(d))

\* df.head(n)
head(d, n) == IF Len(d) <= n THEN d ELSE SubSeq(d, 1, n)

\* lines 194-196: one row per row of df_top5
export_rows(top) ==
    [i \in DOMAIN top |-> [TICKER |-> top[i][1],
                           NAME |-> dow_30[top[i][1]],
                           AMOUNT_INVESTED |-> AMOUNT_INVESTED]]

\* scores = {stock_symbol: mean}: the dict rebuilt instead of updated
process_zip_rebuild(scores, symbol, list) == <<<<symbol, Mean(list)>>>>

\* line 111: scores[stock_symbol] = sum(score_list) / len(score_list)
process_zip_store(scores, symbol, list) == DictSet(scores, symbol, Mean(list))

NoWords == {}

RunInit ==
    /\ pc = "loop"
    /\ zip_files \in Listings
    /\ zi = 1
    /\ stock_symbol = ""
    /\ archives = [t \in Stems |-> <<>>]
    /\ exhausted = {}
    /\ score_list = <<>>
    /\ score_dict = <<>>
    /\ temp_dir = TRUE
    /\ raised = "none"
    /\ df = <<>>
    /\ df_top5 = <<>>
    /\ df_export = <<>>
    /\ document_text = <<>>
    /\ positive_words = {"gain"}
    /\ negative_words = {"loss"}
    /\ modal_weak = NoWords
    /\ modal_strong = NoWords
    /\ litigious = NoWords
    /\ uncertainty = NoWords
    /\ result = [raised |-> "none"]

Init == RunInit

\* main.py lines 178-183 and process_zip lines 94-100: the next directory
\* entry; an archive is opened and extracted under temp_dir
NextEntry ==
    /\ pc = "loop"
    /\ zi <= Len(zip_files)
    /\ LET zip_file == zip_files[zi] IN
       IF ~IsZip(zip_file)
       THEN /\ zi' = zi + 1
            /\ UNCHANGED <<pc, stock_symbol, score_list, raised>>
       ELSE IF MainSymbol(zip_file) \notin DOMAIN dow_30
       THEN /\ pc' = "aborted"
            /\ raised' = "KeyError"
            /\ UNCHANGED <<zi, stock_symbol, score_list>>
       ELSE /\ stock_symbol' = ZipSymbol(zip_file)
            /\ score_list' = <<>>
            /\ pc' = "docs"
            /\ UNCHANGED <<zi, raised>>
    /\ UNCHANGED <<zip_files, archives, exhausted, score_dict, temp_dir, df,
                   df_top5, df_export, document_text, lexicon, result>>

\* the loop body that also stores the mean of the scores so far
ProcessDocument_running_mean ==
    /\ pc = "docs"
    /\ Len(archives[stock_symbol]) < MaxDocs
    /\ \E pdf_file \in DocPool :
        /\ archives' = [archives EXCEPT ![stock_symbol] = Append(@, pdf_file)]
        /\ IF ~pdf_file.pdf
           THEN UNCHANGED <<pc, raised, score_list, score_dict, document_text, result>>
           ELSE IF ~pdf_file.readable
           THEN /\ pc' = "aborted"
                /\ raised' = "PDFSyntaxError"
                /\ UNCHANGED <<score_list, score_dict, document_text, result>>
           ELSE LET r == analyze_sentiment(pdf_file.text) IN
                /\ document_text' = pdf_file.text
                /\ result' = r
                /\ IF r.raised # "none"
                   THEN /\ pc' = "aborted"
                        /\ raised' = r.raised
                        /\ UNCHANGED <<score_list, score_dict>>
                   ELSE /\ score_list' = Append(score_list, r.sentiment_score)
                        /\ score_dict' = DictSet(score_dict, stock_symbol,
                                                 Mean(score_list'))
                        /\ UNCHANGED <<pc, raised>>
    /\ UNCHANGED <<zip_files, zi, stock_symbol, exhausted, temp_dir,
                   df, df_top5, df_export, lexicon>>

\* process_zip lines 102-108: one file of the extracted archive
ProcessDocument ==
    /\ pc = "docs"
    /\ Len(archives[stock_symbol]) < MaxDocs
    /\ \E pdf_file \in DocPool :
        /\ archives' = [archives EXCEPT ![stock_symbol] = Append(@, pdf_file)]
        /\ IF ~pdf_file.pdf
           THEN UNCHANGED <<pc, raised, score_list, document_text, result>>
           ELSE IF ~pdf_file.readable
           THEN /\ pc' = "aborted"
                /\ raised' = "PDFSyntaxError"
                /\ UNCHANGED <<score_list, document_text, result>>
           ELSE LET r == analyze_sentiment(pdf_file.text) IN
                /\ document_text' = pdf_file.text
                /\ result' = r
                /\ IF r.raised # "none"
                   THEN /\ pc' = "aborted"
                        /\ raised' = r.raised
                        /\ UNCHANGED score_list
                   ELSE /\ score_list' = Append(score_list, r.sentiment_score)
                        /\ UNCHANGED <<pc, raised>>
    /\ UNCHANGED <<zip_files, zi, stock_symbol, exhausted, score_dict, temp_dir,
                   df, df_top5, df_export, lexicon>>

\* process_zip: the listing is exhausted, the archive is closed, line 111
FinishZip ==
    /\ pc = "docs"
    /\ exhausted' = exhausted \cup {stock_symbol}
    /\ IF score_list = <<>>
       THEN /\ pc' = "aborted"
            /\ raised' = "ZeroDivisionError"
            /\ UNCHANGED <<zi, score_dict>>
       ELSE /\ score_dict' = process_zip_store(score_dict, stock_symbol, score_list)
            /\ pc' = "loop"
            /\ zi' = zi + 1
            /\ UNCHANGED raised
    /\ UNCHANGED <<zip_files, stock_symbol, archives, score_list, temp_dir,
                   df, df_top5, df_export, document_text, lexicon, result>>

\* main.py lines 185-190: the ranking and its first top_n rows
Rank ==
    /\ pc = "loop"
    /\ zi > Len(zip_files)
    /\ df' \in sort_values(score_dict)
    /\ df_top5' = head(df', top_n)
    /\ pc' = "export"
    /\ UNCHANGED <<zip_files, zi, stock_symbol, archives, exhausted, score_list,
                   score_dict, temp_dir, raised, df_export, document_text,
                   lexicon, result>>

\* main.py lines 192-198: the portfolio file
Export ==
    /\ pc = "export"
    /\ df_export' = export_rows(df_top5)
    /\ pc' = "cleanup"
    /\ UNCHANGED <<zip_files, zi, stock_symbol, archives, exhausted, score_list,
                   score_dict, temp_dir, raised, df, df_top5, document_text,
                   lexicon, result>>

\* main.py lines 200-202: shutil.rmtree(temp_dir)
Cleanup ==
    /\ pc = "cleanup"
    /\ temp_dir' = FALSE
    /\ pc' = "done"
    /\ UNCHANGED <<zip_files, zi, stock_symbol, archives, exhausted, score_list,
                   score_dict, raised, df, df_top5, df_export, document_text,
                   lexicon, result>>

Next == NextEntry \/ ProcessDocument \/ FinishZip \/ Rank \/ Export \/ Cleanup

Spec == Init /\ [][Next]_vars

----------------------------------------------------------------------------
(* The ranking and the export alone: the run taken up where the main loop  *)
(* has stored the scores of the first n tickers of the Dow 30, each from   *)
(* an archive of one or two scored documents.                              *)

DocGain == [pdf |-> TRUE, readable |-> TRUE, text |-> <<"Gain">>]

DocLoss == [pdf |-> TRUE, readable |-> TRUE, text |-> <<"loss,">>]

RankArchives == {<<DocGain>>, <<DocLoss>>, <<DocGain, DocLoss>>}

RECURSIVE ArchiveScores(_)
ArchiveScores(docs) ==
    IF docs = <<>> THEN <<>>
    ELSE <<analyze_sentiment(Head(docs).text).sentiment_score>>
         \o ArchiveScores(Tail(docs))

RankInit ==
    /\ positive_words = {"gain"}
    /\ negative_words = {"loss"}
    /\ modal_weak = NoWords
    /\ modal_strong = NoWords
    /\ litigious = NoWords
    /\ uncertainty = NoWords
    /\ \E n \in 0..MaxRank :
        /\ zip_files = [i \in 1..n |-> [stem |-> RankTickers[i], ext |-> ".zip"]]
        /\ zi = n + 1
        /\ exhausted = {RankTickers[i] : i \in 1..n}
        /\ \E a \in [1..n -> RankArchives] :
            /\ archives = [t \in Stems |->
                             IF \E i \in 1..n : RankTickers[i] = t
                             THEN a[CHOOSE i \in 1..n : RankTickers[i] = t]
                             ELSE <<>>]
            /\ score_dict = [i \in 1..n |->
                               <<RankTickers[i], Mean(ArchiveScores(a[i]))>>]
            /\ stock_symbol = IF n = 0 THEN "" ELSE RankTickers[n]
            /\ score_list = IF n = 0 THEN <<>> ELSE ArchiveScores(a[n])
            /\ document_text = IF n = 0 THEN <<>> ELSE a[n][Len(a[n])].text
            /\ result = IF n = 0 THEN [raised |-> "none"]
                        ELSE analyze_sentiment(a[n][Len(a[n])].text)
    /\ pc = "loop"
    /\ temp_dir = TRUE
    /\ raised = "none"
    /\ df = <<>>
    /\ df_top5 = <<>>
    /\ df_export = <<>>

RankNext == Rank \/ Export \/ Cleanup

SpecRank == RankInit /\ [][RankNext]_vars

----------------------------------------------------------------------------
(* analyze_sentiment alone: each variant applied to a text, under word     *)
(* sets as read_sentiment_files returns them (stripped, lower case).       *)

Texts == UNION { [1..n -> RawChunks] : n \in 0..MaxLen }

ScoreInit ==
    /\ pc = "input"
    /\ document_text \in Texts
    /\ positive_words \in SUBSET Vocabulary
    /\ negative_words \in SUBSET Vocabulary
    /\ modal_weak \in SUBSET Vocabulary
    /\ modal_strong \in SUBSET Vocabulary
    /\ litigious \in SUBSET Vocabulary
    /\ uncertainty \in SUBSET Vocabulary
    /\ result = [raised |-> "none"]
    /\ zip_files = <<>>
    /\ zi = 1
    /\ stock_symbol = ""
    /\ archives = [t \in Stems |-> <<>>]
    /\ exhausted = {}
    /\ score_list = <<>>
    /\ score_dict = <<>>
    /\ temp_dir = TRUE
    /\ raised = "none"
    /\ df = <<>>
    /\ df_top5 = <<>>
    /\ df_export = <<>>

\* src/main.py, analyze_sentiment(text)
ScoreMain ==
    /\ pc = "input"
    /\ result' = analyze_sentiment(document_text)
    /\ pc' = "scored_main"
    /\ UNCHANGED <<run_vars, document_text, lexicon>>

\* src/SA#2.py, analyze_sentiment(text)
ScoreSA2 ==
    /\ pc = "input"
    /\ result' = analyze_sentiment_SA2(document_text)
    /\ pc' = "scored_SA2"
    /\ UNCHANGED <<run_vars, document_text, lexicon>>

\* src/SA#2_directory_read.py, analyze_sentiment(text)
ScoreDirectoryRead ==
    /\ pc = "input"
    /\ result' = analyze_sentiment_directory_read(document_text)
    /\ pc' = "scored_directory_read"
    /\ UNCHANGED <<run_vars, document_text, lexicon>>

ScoreNext == ScoreMain \/ ScoreSA2 \/ ScoreDirectoryRead

SpecScore == ScoreInit /\ [][ScoreNext]_vars

----------------------------------------------------------------------------
(* Properties *)

Terminal == pc \in {"done", "aborted"}

Ranked == pc \in {"export", "cleanup", "done"}

\* a document process_zip can score: a .pdf whose text is extracted and
\* holds at least one token
Scorable(d) ==
    d.pdf /\ d.readable /\ analyze_sentiment(d.text).raised = "none"

\* a .pdf whose text extraction fails
FailsExtraction(d) == d.pdf /\ ~d.readable

\* the scores of the scorable documents among docs, in order
RECURSIVE ScoresOf(_)
ScoresOf(docs) ==
    IF docs = <<>> THEN <<>>
    ELSE (IF Scorable(Head(docs))
          THEN <<analyze_sentiment(Head(docs).text).sentiment_score>>
          ELSE <<>>) \o ScoresOf(Tail(docs))

\* process_zip is over for ticker t: it returned or it raised
Ended(t) == t \in exhausted \/ (pc = "aborted" /\ stock_symbol = t)

Position(d, k) == CHOOSE i \in DOMAIN d : d[i][1] = k

Descending(d) ==
    \A i, j \in DOMAIN d : i < j => ~RLess(d[i][2], d[j][2])

PermutationOf(d, e) ==
    /\ Len(d) = Len(e)
    /\ \A i \in DOMAIN e : \E j \in DOMAIN d : d[j] = e[i]
    /\ \A i, j \in DOMAIN d : i # j => d[i][1] # d[j][1]

(* C1: of a ticker whose archive holds at least one scorable document and,  *)
(* besides scorable documents and files that are no .pdf, only documents    *)
(* whose extraction fails, the failing documents are skipped and the        *)
(* ticker gets the mean of the scored documents' scores: once process_zip   *)
(* is over for the ticker, the dict holds that mean.                        *)
C1_SkipsFailedDocuments ==
    \A t \in Stems :
        LET docs == archives[t] IN
        ( /\ Ended(t)
          /\ ScoresOf(docs) # <<>>
          /\ \A i \in DOMAIN docs :
                docs[i].pdf => Scorable(docs[i]) \/ FailsExtraction(docs[i]) )
        => /\ t \in Keys(score_dict)
           /\ Get(score_dict, t) = Mean(ScoresOf(docs))

(* C2: scoring a document with no token ends in EmptyDocumentError, and the *)
(* run goes on: no ZeroDivisionError, no abort.                             *)
C2_EmptyDocumentError ==
    ("word_cnt" \in DOMAIN result /\ result.word_cnt = 0)
    => (result.raised = "EmptyDocumentError" /\ pc # "aborted")

(* C3: a ticker whose document loop ended with no document scored gets no   *)
(* entry in the dict and the run does not abort.                            *)
C3_UnscoredTickerSkipped ==
    \A t \in Stems :
        (t \in exhausted /\ ScoresOf(archives[t]) = <<>>)
        => (t \notin Keys(score_dict) /\ pc # "aborted")

(* C5: the ranking is a permutation of the dict's entries, by score         *)
(* descending, and entries of equal score keep their insertion order.       *)
C5_StableRanking ==
    Ranked =>
        /\ PermutationOf(df, score_dict)
        /\ Descending(df)
        /\ \A i, j \in DOMAIN df :
              (i < j /\ df[i][2] = df[j][2])
              => Position(score_dict, df[i][1]) < Position(score_dict, df[j][1])

(* C6: the dict holds an entry for a ticker only if the document loop of    *)
(* that ticker ran to its end; a run that fails in the middle of a ticker   *)
(* leaves no aggregate of the scores accumulated so far.                    *)
C6_NoPartialAggregate ==
    /\ \A t \in Keys(score_dict) : t \in exhausted
    /\ (pc = "aborted" /\ stock_symbol \notin exhausted)
       => stock_symbol \notin Keys(score_dict)

\* the run failed in the middle of a ticker that had scores accumulated,
\* after another ticker was stored
C6_Witness ==
    /\ pc = "aborted"
    /\ stock_symbol \notin exhausted
    /\ score_list # <<>>
    /\ Keys(score_dict) # {}
    /\ stock_symbol \notin Keys(score_dict)

(* C7: the exported table is the first 5 rows of the ranking (all of them   *)
(* when there are fewer), in the ranking's order; the ranking itself stays  *)
(* the full descending sort of the dict; each row has the amount 200000     *)
(* and the Dow 30 name of its ticker.                                       *)
C7_ExportIsTopOfRanking ==
    pc \in {"cleanup", "done"} =>
        /\ Len(df_export) = (IF Len(df) < 5 THEN Len(df) ELSE 5)
        /\ PermutationOf(df, score_dict)
        /\ Descending(df)
        /\ \A i \in DOMAIN df_export :
              /\ df_export[i].TICKER = df[i][1]
              /\ df_export[i].NAME = dow_30[df[i][1]]
              /\ df_export[i].AMOUNT_INVESTED = 200000

\* more than 5 tickers were ranked, of two scores at least, and 5 exported
C7_Witness ==
    /\ pc = "done"
    /\ Len(df) > 5
    /\ Len(df_export) = 5
    /\ df[1][2] # df[Len(df)][2]

(* C8: in every terminal state the temporary directory is gone.             *)
C8_TempDirReleased ==
    (Terminal /\ raised \in {"none", "PDFSyntaxError", "ZeroDivisionError"})
    => ~temp_dir

\* the tokens the variant that set result counted over
TokensCounted ==
    IF pc = "scored_main"
    THEN tokenize_text(document_text, global_exclude_stop_words)
    ELSE LowerAll(document_text)

CountFields ==
    {"positive_cnt", "negative_cnt", "weak_cnt", "strong_cnt",
     "litigious_cnt", "uncertainty_cnt"}

(* C4, as stated: the label of the six-count variant follows the            *)
(* precedence uncertain, litigious, strong positive, strong negative,       *)
(* positive, negative, neutral.                                             *)
C4_SevenRulePrecedence ==
    pc = "scored_SA2" =>
        result.document_sentiment =
            IF result.uncertainty_cnt >= 1
            THEN "Seems to be some uncertainty in this stock"
            ELSE IF result.litigious_cnt >= 1
            THEN "Check the legal background on this"
            ELSE IF result.positive_cnt > result.negative_cnt
                    /\ result.strong_cnt > result.weak_cnt
            THEN "Strong Positive"
            ELSE IF result.negative_cnt > result.positive_cnt
                    /\ result.weak_cnt > result.strong_cnt
            THEN "Strong Negative"
            ELSE IF result.positive_cnt > result.negative_cnt
            THEN "Positive"
            ELSE IF result.negative_cnt > result.positive_cnt
            THEN "Negative"
            ELSE "Neutral"

(* C4, amended: the label of the six-count variant (SA#2.py) follows the    *)
(* precedence uncertain, litigious, strong positive, strong negative,       *)
(* neutral: it has no plain positive or negative label. The positive /      *)
(* negative / neutral labels are those of the two-count variant             *)
(* (SA#2_directory_read.py), by positive against negative count alone.      *)
C4_LabelPrecedence ==
    /\ pc = "scored_SA2" =>
        result.document_sentiment =
            IF result.uncertainty_cnt >= 1
            THEN "Seems to be some uncertainty in this stock"
            ELSE IF result.litigious_cnt >= 1
            THEN "Check the legal background on this"
            ELSE IF result.positive_cnt > result.negative_cnt
                    /\ result.strong_cnt > result.weak_cnt
            THEN "Strong Positive"
            ELSE IF result.negative_cnt > result.positive_cnt
                    /\ result.weak_cnt > result.strong_cnt
            THEN "Strong Negative"
            ELSE "Neutral"
    /\ (pc = "scored_directory_read" /\ result.raised = "none") =>
        result.document_sentiment =
            IF result.positive_cnt > result.negative_cnt THEN "Positive"
            ELSE IF result.negative_cnt > result.positive_cnt THEN "Negative"
            ELSE "Neutral"

\* uncertainty wins over a litigious hit and over a strong positive count
C4_Witness ==
    /\ pc = "scored_SA2"
    /\ result.uncertainty_cnt >= 1
    /\ result.litigious_cnt >= 1
    /\ result.positive_cnt > result.negative_cnt
    /\ result.strong_cnt > result.weak_cnt
    /\ result.document_sentiment = "Seems to be some uncertainty in this stock"

(* C9: every category count a variant of analyze_sentiment computes is an   *)
(* integer between 0 and the number of tokens counted over.                 *)
C9_CountsWithinLength ==
    pc \in {"scored_main", "scored_SA2", "scored_directory_read"} =>
        \A f \in CountFields \cap DOMAIN result :
            result[f] \in 0..Len(TokensCounted)

\* a text whose every token is in several word sets at once
C9_Witness ==
    /\ pc = "scored_SA2"
    /\ Len(TokensCounted) >= 2
    /\ result.positive_cnt = Len(TokensCounted)
    /\ result.negative_cnt = Len(TokensCounted)
    /\ result.uncertainty_cnt = Len(TokensCounted)

\* the tickers of the archives the main loop is past
Processed == {zip_files[i].stem : i \in {j \in 1..(zi - 1) : IsZip(zip_files[j])}}

C10_OneEntryPerTicker ==
    /\ \A i, j \in DOMAIN score_dict : i # j => score_dict[i][1] # score_dict[j][1]
    /\ pc = "loop" => Keys(score_dict) = Processed
    /\ \A t \in Keys(score_dict) :
          Get(score_dict, t) = Mean(ScoresOf(archives[t]))

\* a step that changes the dict changes the entry of stock_symbol alone
C10_Frame ==
    score_dict' # score_dict =>
        \A t \in (Keys(score_dict) \cup Keys(score_dict')) \ {stock_symbol'} :
            /\ t \in Keys(score_dict) /\ t \in Keys(score_dict')
            /\ Get(score_dict', t) = Get(score_dict, t)

(* C10: a step of process_zip changes at most the entry of its own ticker;  *)
(* the dict has one entry per ticker processed, and the value of a ticker   *)
(* is the mean over that ticker's own archive, whatever the order of the    *)
(* archives in the listing.                                                 *)
C10_FrameAndOrderIndependence == [](C10_OneEntryPerTicker) /\ [][C10_Frame]_vars

\* two archives processed, two entries
C10_Witness ==
    /\ pc = "loop"
    /\ Len(score_dict) = 2
    /\ Cardinality(Processed) = 2

=============================================================================
